---------------------------- MODULE Spec2Model ----------------------------
(***************************************************************************)
(* Model of wavefront_fst.cpp: a FastFlow pipeline of M_Diagonal_Stage     *)
(* nodes, each running a farm of DotProduct_Stage workers, each of which   *)
(* runs a farm of DotProduct_Worker nodes collected by a Sink.             *)
(*                                                                         *)
(* Numbers.  uint16_t values are naturals below 2^16.  A double is held as *)
(* a natural: the diagonal value static_cast<double>(m+1)/N is held as its *)
(* numerator m+1 (units of 1/N), products and sums are exact, and cbrt is  *)
(* the integer cube root.  No claim checked here rests on rounding.        *)
(*                                                                         *)
(* FastFlow (ff/*.hpp, a library outside the repository) is modelled by    *)
(* its documented behaviour, stated where it is used.                      *)
(***************************************************************************)
EXTENDS Integers, Sequences, FiniteSets

\* ------------------------------------------------------------------ bounds
MaxN   == 4     \* main: N ranges over 0..MaxN
MaxW   == 4     \* main and band stage: W ranges up to MaxW
MaxBN  == 3     \* band stage alone: matrix size 2..MaxBN
MaxVal == 1     \* values of already computed off-diagonal cells: 0..MaxVal
MaxK   == 3     \* dot-product emitter alone: vector length 1..MaxK
MaxRW  == 8     \* CalculateResources alone: W in 0..MaxRW
MaxRK  == 8     \* CalculateResources alone: K in 1..MaxRK

U16 == 65536    \* uint16_t arithmetic is modulo 2^16

VARIABLES
    \* ---- main (wavefront_fst.cpp:396-451)
    pc,          \* where main / the pipeline run is
    N, W,        \* const uint16_t N, W
    k,           \* loop variable of the stage-building loop
    resources,   \* Resources resources, the last split computed
    s2,          \* storage of the loop-local M_Diagonal_Stage s2
    pipe,        \* ff_Pipe<> pipe: the addresses of the nodes added as stages
    nCalc,       \* history: number of CalculateResources calls made by main
    \* ---- M_Diagonal_Stage::svc and its farm (331-386, 228-264, 294-329)
    stage,       \* fields N, K, W, Z, D of the stage object executing svc
    M,           \* svc's argument matrix_d *M: << >> is nullptr, <<mat>> a matrix
    farm,        \* state of the stage's farm
    m,           \* Diagonal_Emitter::svc loop variable
    task,        \* the tuple_dot_product objects created so far (never deleted)
    queue,       \* indices into task: sent by the emitter, not yet taken
    worker,      \* DotProduct_Stage workers 1..Z: idle, running a task, ended
    reads,       \* history: cells (row, col) read into v1/v2, per entry m
    out,         \* what M_Diagonal_Stage::svc returned
    bandDone,    \* history: bands whose farm returned from run_and_wait_end >= 0
    \* ---- DotProduct_Emitter::svc (193-221)
    emitter,     \* fields K, W, D, v1, v2 of the DotProduct_Emitter
    dpc,         \* where DotProduct_Emitter::svc is
    sub_v1_list, \* list<vector_d> sub_v1_list
    sub_v2_list, \* list<vector_d> sub_v2_list
    w,           \* loop variable of the send loop
    sent,        \* tuples handed to ff_send_out, in order
    oob,         \* history: an element at index >= size, or a list node past
                 \* the end, has been addressed
    \* ---- the farm of one entry (272-284, 165-186, 313-327)
    dfarm,       \* state of DotProduct_Stage::svc's farm
    taken,       \* number of sent tuples the DotProduct_Workers have taken
    dworker,     \* DotProduct_Workers 1..D: idle, holding a tuple, ended
    results,     \* partial results sent to the collector, not yet received
    sink,        \* the Sink: sum, the matrix M and cell (i, j) it writes, and
                 \* history n: number of partial results received
    \* ---- FillMatrix (60-67)
    pf           \* the ParallelFor: indices whose body has not run yet

mainVars    == <<pc, N, W, k, resources, s2, pipe, nCalc>>
stageVars   == <<stage, M, farm, m, task, queue, worker, reads, out, bandDone>>
emitterVars == <<emitter, dpc, sub_v1_list, sub_v2_list, w, sent, oob>>
entryVars   == <<dfarm, taken, dworker, results, sink>>
vars        == <<mainVars, stageVars, entryVars, pf, emitterVars, entryVars, pf>>

\* ------------------------------------------------------- pure functions
Min2(a, b) == IF a < b THEN a ELSE b

\* (float)(W/2) + (float)(W/2) * ((float)(K-1) / (float)K), converted to
\* uint16_t (truncation).  With h = W/2 and K >= W >= 2h the exact value is
\* 2h - h/K with h/K in (0, 1/2] (h >= 1) or 0 (h = 0); binary32 rounding of
\* the quotient and product moves it by less than h * 2^-22, far less than the
\* distance h/K >= h * 2^-16 to the integer 2h, so the truncation equals the
\* integer formula below for every uint16_t input.
\* The else branch with the fraction inverted: K / (K-1) for (K-1) / K.
ElseBranchD_Inverted(Wv, Kv) ==
    IF Kv = 1 THEN Wv \div 2
    ELSE (Wv \div 2) + (((Wv \div 2) * Kv) \div (Kv - 1))

ElseBranchD(Wv, Kv) == (Wv \div 2) + (((Wv \div 2) * (Kv - 1)) \div Kv)

CalculateResources(Wv, Kv, Nv) ==
    IF Kv < Wv
    THEN [Z |-> Wv \div 2, D |-> Wv \div 2]
    ELSE [Z |-> (Wv - ElseBranchD(Wv, Kv)) % U16, D |-> ElseBranchD(Wv, Kv) % U16]

\* cbrt on the non-negative values of the model
Cbrt(x) == CHOOSE r \in 0..x : r * r * r <= x /\ x < (r + 1) * (r + 1) * (r + 1)

\* ------------------------------------------------------------------ main
NoStage     == [N |-> 0, K |-> 0, W |-> 0, Z |-> 0, D |-> 0]
NoResources == [Z |-> 0, D |-> 0]
NoEmitter   == [K |-> 0, W |-> 0, D |-> 0, v1 |-> << >>, v2 |-> << >>]

StageIdle ==
    /\ stage = NoStage /\ M = << >> /\ farm = "none" /\ m = 0
    /\ task = << >> /\ queue = << >> /\ worker = << >> /\ reads = {}
    /\ out = "none" /\ bandDone = {}

NoSink      == [sum |-> 0, st |-> "none", n |-> 0, M |-> << >>, i |-> 0, j |-> 0]
NoPf        == [st |-> "none", todo |-> {}]

EntryIdle ==
    /\ dfarm = "none" /\ taken = 0 /\ dworker = << >> /\ results = << >>
    /\ sink = NoSink

EmitterIdle ==
    /\ emitter = NoEmitter /\ dpc = "none"
    /\ sub_v1_list = << >> /\ sub_v2_list = << >> /\ w = 0
    /\ sent = << >> /\ oob = FALSE
    /\ EntryIdle /\ pf = NoPf

\* main after "const uint16_t W = atoi(arg[2])" (403-404): any N and W, none
\* is validated.  s1 (414) is constructed and never added to the pipe or run.
Init ==
    /\ N \in 0..MaxN /\ W \in 0..MaxW
    /\ pc = "loop" /\ k = 1
    /\ resources = NoResources /\ s2 = NoStage /\ pipe = << >> /\ nCalc = 0
    /\ StageIdle /\ EmitterIdle

\* One iteration of the loop 420-432.  s2 is a local of the loop body: it is
\* constructed, its address is appended to the pipe (ff_Pipe::add_stage of an
\* lvalue node keeps a pointer to it), and it is destroyed at the closing brace;
\* its storage, reused by the next iteration, keeps the bytes last stored.
Main_loop ==
    /\ pc = "loop" /\ k < N
    /\ resources' = CalculateResources(W, k, N)
    /\ nCalc' = nCalc + 1
    /\ s2' = [N |-> N, K |-> k, W |-> W, Z |-> resources'.Z, D |-> resources'.D]
    /\ pipe' = Append(pipe, "&s2")
    /\ k' = (k + 1) % U16
    /\ UNCHANGED <<pc, N, W, stageVars, emitterVars, entryVars, pf>>

\* Loop exit, reaching pipe.run_and_wait_end() (438).
Main_loop_exit ==
    /\ pc = "loop" /\ ~(k < N)
    /\ pc' = "run"
    /\ UNCHANGED <<N, W, k, resources, s2, pipe, nCalc, stageVars, emitterVars, entryVars, pf>>

\* run_and_wait_end of a pipe with no stage (N <= 1): whether FastFlow
\* reports an error is the library's choice; main returns -1 or falls off the
\* end (0) accordingly.
Pipe_run_empty ==
    /\ pc = "run" /\ pipe = << >>
    /\ \E r \in {"exit0", "exitm1"} : pc' = r
    /\ UNCHANGED <<N, W, k, resources, s2, pipe, nCalc, stageVars, emitterVars, entryVars, pf>>

\* run_and_wait_end of a pipe with stages.  The first stage has no input
\* channel, so FastFlow calls its svc with a null task.  Every stage is the
\* address of the destroyed local s2: using it is undefined; the run either
\* faults or finds the bytes of the last s2 constructed (K = N-1).
Pipe_run ==
    /\ pc = "run" /\ pipe # << >>
    /\ \/ /\ pc' = "crashed"
          /\ UNCHANGED <<stage, M, farm>>
       \/ /\ pc' = "stage"
          /\ stage' = s2
          /\ M' = << >>
          /\ farm' = "svc"
    /\ UNCHANGED <<N, W, k, resources, s2, pipe, nCalc,
                   m, task, queue, worker, reads, out, bandDone, emitterVars, entryVars, pf>>

\* --------------------------------------------------------------- matrices
\* matrix_d M(N, vector_d(N, 0.0))  (151)
ZeroMatrix(Nv) == [i \in 0..Nv-1 |-> [j \in 0..Nv-1 |-> 0]]

\* FillMatrix (60-67): M[m][m] = (m+1)/N for every m, whatever the order in
\* which the parallel_for workers take the indices.
FillMatrix(mat, Nv, Wv) ==
    [i \in 0..Nv-1 |-> [j \in 0..Nv-1 |-> IF i = j THEN i + 1 ELSE mat[i][j]]]

\* Sink::svc_end with the second store (181) left out.
Sink_svc_end_OneStore(mat, i, j, sum) ==
    [mat EXCEPT ![i][j] = Cbrt(sum)]

\* Sink::svc_end storing to the diagonal cell of row i and not to (i, j).
Sink_svc_end_WrongCell(mat, i, j, sum) ==
    LET element == Cbrt(sum)
        Mii     == [mat EXCEPT ![i][i] = element]
    IN  [Mii EXCEPT ![j][i] = element]

\* Sink::svc_end (177-181): element = cbrt(sum); M[i][j] = element;
\* M[j][i] = element.
Sink_svc_end(mat, i, j, sum) ==
    LET element == Cbrt(sum)
        Mij     == [mat EXCEPT ![i][j] = element]
    IN  [Mij EXCEPT ![j][i] = element]

\* ---------------------------------------------------- dot-product emitter
Garbage == 0..MaxVal     \* what a read outside an object may find

\* PartialDotProduct (106-113)
RECURSIVE PartialDotProduct(_, _, _)
PartialDotProduct(v1, v2, size) ==
    IF size = 0 THEN 0
    ELSE PartialDotProduct(v1, v2, size - 1) + v1[size] * v2[size]

\* SplitVector (122-137), called as SplitVector(v, D, K) at 207-208.
\* base_size = D / K, remainder = D % K, and the loop runs K times: chunk i
\* (0-based) is v[start, start + current_size).  An index >= v.size() is
\* outside the vector: g gives what such a read finds.
CurrentSize(Dv, Kv, i) == (Dv \div Kv) + (IF i < Dv % Kv THEN 1 ELSE 0)

RECURSIVE StartOf(_, _, _)
StartOf(Dv, Kv, i) ==
    IF i = 0 THEN 0 ELSE StartOf(Dv, Kv, i - 1) + CurrentSize(Dv, Kv, i - 1)

SplitVector(v, Dv, Kv, g) ==
    [i \in 1..Kv |->
        [j \in 1..CurrentSize(Dv, Kv, i - 1) |->
            LET idx == StartOf(Dv, Kv, i - 1) + j - 1
            IN  IF idx < Len(v) THEN v[idx + 1] ELSE g[idx]]]

\* The last index SplitVector addresses is D-1: it leaves the vector iff
\* D > v.size().
SplitReadsOutside(v, Dv) == Dv > Len(v)
GarbageFor(v, Dv) == [Len(v)..Dv-1 -> Garbage]

\* What the read of a list node past the end (*begin_v1 with the iterator at
\* or beyond end()) may find: some vector.
GarbageChunks == {<< >>} \cup {<<x>> : x \in Garbage}

\* The tuple sent in iteration wv (0-based) of the loop 212-217.
ChunkTuple(c1, c2) == [v1 |-> c1, v2 |-> c2, size |-> Len(c1)]

\* --------------------------------------------- M_Diagonal_Stage and farm
Idle == [st |-> "idle", t |-> 0]

\* M_Diagonal_Stage::svc, 337-352: the workers, the emitter and the farm are
\* created and the farm is run.  A FastFlow farm with no worker (Z = 0) does
\* not start: run_and_wait_end returns < 0 and svc returns EOS (353-354).
M_Diagonal_Stage_svc ==
    /\ pc = "stage" /\ farm = "svc"
    /\ IF stage.Z = 0
       THEN /\ farm' = "failed" /\ out' = "EOS"
            /\ UNCHANGED <<m, worker>>
       ELSE /\ farm' = "running" /\ m' = 0
            /\ worker' = [x \in 1..stage.Z |-> Idle]
            /\ UNCHANGED out
    /\ UNCHANGED <<mainVars, stage, M, task, queue, reads, bandDone, emitterVars, entryVars, pf>>

\* The inner loop with the bound i <= K: one element more.
RowSegment_OneMore(mat, row, col, Kv) ==
    [i \in 1..Kv+1 |-> mat[row][col + i - 1]]

\* The inner loop 241-246 for one of the two vectors: push_back of
\* M[row][col + i] for i = 0..K-1.
RowSegment(mat, row, col, Kv) ==
    [i \in 1..Kv |-> mat[row][col + i - 1]]

\* One iteration of Diagonal_Emitter::svc's loop (237-261).  M is a reference
\* to *M of the stage: with M = nullptr the first read faults.  Otherwise v1
\* and v2 are read, and the task is created with a COPY of the matrix: the
\* third component of tuple_dot_product is a matrix_d, not a reference (24).
Diagonal_Emitter_svc ==
    /\ pc = "stage" /\ farm = "running" /\ m < stage.N - stage.K
    /\ IF M = << >>
       THEN /\ pc' = "crashed"
            /\ UNCHANGED <<m, task, queue, reads>>
       ELSE LET Kv == stage.K
                v1 == RowSegment(M[1], m, m, Kv)
                v2 == RowSegment(M[1], m + Kv, m, Kv)
            IN  /\ reads' = reads \cup {<<m, m, m + i>> : i \in 0..Kv-1}
                                  \cup {<<m, m + Kv, m + i>> : i \in 0..Kv-1}
                /\ task' = Append(task,
                       [v1 |-> v1, v2 |-> v2, M |-> M[1], K |-> Kv,
                        W |-> stage.W, D |-> stage.D, i |-> m, j |-> m + Kv,
                        st |-> "sent", element |-> 0])
                /\ queue' = Append(queue, Len(task) + 1)
                /\ m' = m + 1
                /\ UNCHANGED pc
    /\ UNCHANGED <<N, W, k, resources, s2, pipe, nCalc,
                   stage, M, farm, worker, out, bandDone, emitterVars, entryVars, pf>>

\* Diagonal_Emitter::svc returns EOS (262).
Diagonal_Emitter_eos ==
    /\ pc = "stage" /\ farm = "running" /\ ~(m < stage.N - stage.K)
    /\ farm' = "draining"
    /\ UNCHANGED <<mainVars, stage, M, m, task, queue, worker, reads, out,
                   bandDone, emitterVars, entryVars, pf>>

\* On-demand scheduling (350): a worker that is ready gets the next task.
DotProduct_Stage_take(x) ==
    /\ pc = "stage" /\ farm \in {"running", "draining"}
    /\ worker[x].st = "idle" /\ queue # << >>
    /\ worker' = [worker EXCEPT ![x] = [st |-> "busy", t |-> Head(queue)]]
    /\ queue' = Tail(queue)
    /\ task' = [task EXCEPT ![Head(queue)].st = "running"]
    /\ UNCHANGED <<mainVars, stage, M, farm, m, reads, out, bandDone, emitterVars, entryVars, pf>>

\* The partial results the DotProduct_Workers of one entry can deliver
\* (272-284): one per tuple sent by DotProduct_Emitter::svc.  Iterations
\* x <= K of the send loop find a chunk of SplitVector's K-element list; the
\* iterations after it (D > K) read a list node past the end.
PartialSums(v1, v2, Dv, Kv) ==
    {PartialDotProduct(SplitVector(v1, Dv, Kv, g1)[x],
                       SplitVector(v2, Dv, Kv, g2)[x],
                       CurrentSize(Dv, Kv, x - 1)) :
        <<x, g1, g2>> \in (1..Min2(Dv, Kv)) \X GarbageFor(v1, Dv) \X GarbageFor(v2, Dv)}
    \cup
    (IF Dv > Kv
     THEN {PartialDotProduct(c[1], c[2], Len(c[1])) :
              c \in {d \in GarbageChunks \X GarbageChunks : Len(d[1]) = Len(d[2])}}
     ELSE {})

\* DotProduct_Stage::svc (296-328), the whole handler: the entry's farm of D
\* DotProduct_Workers is built and run to its end.  With D = 0 the farm has no
\* worker, run_and_wait_end returns < 0 and svc returns EOS (323-326), which
\* ends this worker.  Otherwise the emitter splits and sends (an access
\* outside v1/v2 or the chunk list, when D > K, may fault), and the Sink adds
\* the first partial result it receives and returns EOS (171-175), so its
\* svc_end (177-181) writes cbrt of that one partial result into the task's
\* own matrix, std::get<2>(*task) (299); svc returns GO_ON (327).
DotProduct_Stage_svc(x) ==
    /\ pc = "stage" /\ farm \in {"running", "draining"}
    /\ worker[x].st = "busy"
    /\ LET t  == worker[x].t
           tk == task[t]
       IN  IF tk.D = 0
           THEN /\ worker' = [worker EXCEPT ![x] = [st |-> "ended", t |-> 0]]
                /\ task' = [task EXCEPT ![t].st = "failed"]
                /\ UNCHANGED pc
           ELSE \/ /\ SplitReadsOutside(tk.v1, tk.D)
                   /\ pc' = "crashed"
                   /\ UNCHANGED <<worker, task>>
                \/ \E sum \in PartialSums(tk.v1, tk.v2, tk.D, tk.K) :
                   /\ task' = [task EXCEPT
                                 ![t].M = Sink_svc_end(tk.M, tk.i, tk.j, sum),
                                 ![t].element = Cbrt(sum),
                                 ![t].st = "written"]
                   /\ worker' = [worker EXCEPT ![x] = Idle]
                   /\ UNCHANGED pc
    /\ UNCHANGED <<N, W, k, resources, s2, pipe, nCalc,
                   stage, M, farm, m, queue, reads, out, bandDone, emitterVars, entryVars, pf>>

\* The emitter has returned EOS and no task is left: the worker gets EOS.
DotProduct_Stage_eos(x) ==
    /\ pc = "stage" /\ farm = "draining"
    /\ worker[x].st = "idle" /\ queue = << >>
    /\ worker' = [worker EXCEPT ![x] = [st |-> "ended", t |-> 0]]
    /\ UNCHANGED <<mainVars, stage, M, farm, m, task, queue, reads, out,
                   bandDone, emitterVars, entryVars, pf>>

\* M_Diagonal_Stage::svc, 352-385: run_and_wait_end has returned (every node
\* of the farm has ended); svc returns M when N-1 == K and GO_ON otherwise.
M_Diagonal_Stage_return ==
    /\ pc = "stage" /\ farm = "draining"
    /\ \A x \in DOMAIN worker : worker[x].st = "ended"
    /\ farm' = "returned"
    /\ bandDone' = bandDone \cup {stage.K}
    /\ out' = IF stage.N - 1 = stage.K THEN "M" ELSE "GO_ON"
    /\ UNCHANGED <<mainVars, stage, M, m, task, queue, worker, reads, emitterVars, entryVars, pf>>

\* The first stage returned EOS: the pipe ends, run_and_wait_end (438)
\* returns 0 and main runs to its end.
Pipe_end ==
    /\ pc = "stage" /\ out = "EOS"
    /\ pc' = "exit0"
    /\ UNCHANGED <<N, W, k, resources, s2, pipe, nCalc, stageVars, emitterVars, entryVars, pf>>

\* --------------------------------------------------- the program, main
Next ==
    \/ Main_loop
    \/ Main_loop_exit
    \/ Pipe_run_empty
    \/ Pipe_run
    \/ M_Diagonal_Stage_svc
    \/ Diagonal_Emitter_svc
    \/ Pipe_end

Spec == Init /\ [][Next]_vars

\* Threads that can run do run.
FairSpec == Spec /\ WF_vars(Next)

\* ------------------------------------------- the band stage on its own
\* main's variables once the loop 420-432 has run for Nv >= 2 and Wv.
MainBuilt(Nv, Wv) ==
    /\ pc = "stage" /\ N = Nv /\ W = Wv /\ k = Nv
    /\ resources = CalculateResources(Wv, Nv - 1, Nv)
    /\ s2 = [N |-> Nv, K |-> Nv - 1, W |-> Wv,
             Z |-> resources.Z, D |-> resources.D]
    /\ pipe = [i \in 1..Nv-1 |-> "&s2"]
    /\ nCalc = Nv - 1

\* The matrices M_Diagonal_Stage::svc is meant to receive for band Kv: the
\* diagonal as CreateMatrix::svc (150-152) leaves it, the bands below Kv
\* holding symmetric values, every other cell still 0.
Band(i, j) == IF i < j THEN j - i ELSE i - j

ValidMatrices(Nv, Kv) ==
    LET Lower == {c \in (0..Nv-1) \X (0..Nv-1) : c[1] < c[2] /\ c[2] - c[1] < Kv}
        Diag  == FillMatrix(ZeroMatrix(Nv), Nv, 1)
    IN  {[i \in 0..Nv-1 |-> [j \in 0..Nv-1 |->
            IF i = j THEN Diag[i][j]
            ELSE IF Band(i, j) < Kv
                 THEN f[<<Min2(i, j), i + j - Min2(i, j)>>]
                 ELSE 0]] : f \in [Lower -> 0..MaxVal]}

\* M_Diagonal_Stage::svc entered for band Kv of an Nv x Nv matrix, with the
\* split main computed for it (422, 428) and a worker budget W >= 2.
InitBand ==
    \E Nv \in 2..MaxBN, Wv \in 2..MaxW :
      \E Kv \in 1..Nv-1 :
        \E mat \in ValidMatrices(Nv, Kv) :
          /\ MainBuilt(Nv, Wv)
          /\ stage = [N |-> Nv, K |-> Kv, W |-> Wv,
                      Z |-> CalculateResources(Wv, Kv, Nv).Z,
                      D |-> CalculateResources(Wv, Kv, Nv).D]
          /\ M = <<mat>> /\ farm = "svc" /\ m = 0
          /\ task = << >> /\ queue = << >> /\ worker = << >> /\ reads = {}
          /\ out = "none" /\ bandDone = 1..Kv-1
          /\ EmitterIdle

NextBand ==
    \/ M_Diagonal_Stage_svc
    \/ Diagonal_Emitter_svc
    \/ Diagonal_Emitter_eos
    \/ \E x \in DOMAIN worker : DotProduct_Stage_take(x)
    \/ \E x \in DOMAIN worker : DotProduct_Stage_svc(x)
    \/ \E x \in DOMAIN worker : DotProduct_Stage_eos(x)
    \/ M_Diagonal_Stage_return

SpecBand == InitBand /\ [][NextBand]_vars

\* ----------------------------------------- CalculateResources on its own
\* main's loop entered at any iteration k, for the worker budgets and sizes
\* of the bounds.
InitResources ==
    \E Wv \in 0..MaxRW, Kv \in 1..MaxRK :
      \E Nv \in Kv+1..MaxRK+1 :
        /\ pc = "loop" /\ N = Nv /\ W = Wv /\ k = Kv
        /\ resources = NoResources /\ s2 = NoStage
        /\ pipe = [i \in 1..Kv-1 |-> "&s2"] /\ nCalc = 0
        /\ StageIdle /\ EmitterIdle

NextResources == Main_loop

SpecResources == InitResources /\ [][NextResources]_vars

\* ------------------------------------- DotProduct_Emitter::svc on its own
\* 207-208: both vectors are split; a read outside them finds garbage or
\* faults.
DotProduct_Emitter_split ==
    /\ dpc = "svc"
    /\ oob' = SplitReadsOutside(emitter.v1, emitter.D)
    /\ \/ /\ SplitReadsOutside(emitter.v1, emitter.D)
          /\ dpc' = "crashed"
          /\ UNCHANGED <<sub_v1_list, sub_v2_list>>
       \/ \E g1 \in GarbageFor(emitter.v1, emitter.D),
             g2 \in GarbageFor(emitter.v2, emitter.D) :
          /\ sub_v1_list' = SplitVector(emitter.v1, emitter.D, emitter.K, g1)
          /\ sub_v2_list' = SplitVector(emitter.v2, emitter.D, emitter.K, g2)
          /\ dpc' = "loop"
    /\ w' = 0
    /\ UNCHANGED <<mainVars, stageVars, entryVars, pf, emitter, sent>>

\* 212-217, an iteration whose iterators are inside the lists.
DotProduct_Emitter_send ==
    /\ dpc = "loop" /\ w < emitter.D /\ w < Len(sub_v1_list)
    /\ sent' = Append(sent, ChunkTuple(sub_v1_list[w + 1], sub_v2_list[w + 1]))
    /\ w' = w + 1
    /\ UNCHANGED <<mainVars, stageVars, entryVars, pf, emitter, dpc, sub_v1_list, sub_v2_list, oob>>

\* 212-217, an iteration whose iterators are at or past end(): *begin_v1 is
\* undefined and finds some vector, or faults.
DotProduct_Emitter_send_end ==
    /\ dpc = "loop" /\ w < emitter.D /\ ~(w < Len(sub_v1_list))
    /\ oob' = TRUE
    /\ \/ /\ dpc' = "crashed"
          /\ UNCHANGED <<sent, w>>
       \/ \E c1 \in GarbageChunks, c2 \in GarbageChunks :
          /\ Len(c1) = Len(c2)
          /\ sent' = Append(sent, ChunkTuple(c1, c2))
          /\ w' = w + 1
          /\ UNCHANGED dpc
    /\ UNCHANGED <<mainVars, stageVars, entryVars, pf, emitter, sub_v1_list, sub_v2_list>>

\* 219: return EOS.
DotProduct_Emitter_eos ==
    /\ dpc = "loop" /\ ~(w < emitter.D)
    /\ dpc' = "eos"
    /\ UNCHANGED <<mainVars, stageVars, entryVars, pf, emitter, sub_v1_list, sub_v2_list, w,
                   sent, oob>>

\* The emitter of one entry of band Kv, as DotProduct_Stage::svc builds it
\* (314) from a task of a stage with budget Wv >= 2: D is the split main
\* computed, v1 and v2 have length Kv.
InitSplit ==
    \E Kv \in 1..MaxK, Wv \in 2..MaxW :
      \E a \in [1..Kv -> 0..MaxVal], b \in [1..Kv -> 0..MaxVal] :
        /\ MainBuilt(Kv + 1, Wv)
        /\ StageIdle
        /\ emitter = [K |-> Kv, W |-> Wv,
                      D |-> CalculateResources(Wv, Kv, Kv + 1).D,
                      v1 |-> a, v2 |-> b]
        /\ dpc = "svc"
        /\ sub_v1_list = << >> /\ sub_v2_list = << >> /\ w = 0
        /\ sent = << >> /\ oob = FALSE
        /\ EntryIdle /\ pf = NoPf

NextSplit ==
    \/ DotProduct_Emitter_split
    \/ DotProduct_Emitter_send
    \/ DotProduct_Emitter_send_end
    \/ DotProduct_Emitter_eos

SpecSplit == InitSplit /\ [][NextSplit]_vars

\* --------------------------------- the farm of one entry, 296-328, alone
\* DotProduct_Worker, on-demand scheduling (322): a worker that is ready gets
\* the next tuple the emitter has sent.
DotProduct_Worker_take(x) ==
    /\ dfarm = "running" /\ dpc # "crashed"
    /\ dworker[x].st = "idle" /\ taken < Len(sent)
    /\ dworker' = [dworker EXCEPT ![x] = [st |-> "busy", t |-> taken + 1]]
    /\ taken' = taken + 1
    /\ UNCHANGED <<mainVars, stageVars, emitterVars, dfarm, results, sink, pf>>

\* DotProduct_Worker::svc (273-282): the partial dot product of the tuple is
\* sent to the collector, and the worker returns GO_ON.  The worker's output
\* queue holds far more than the D results of one entry: the send does not
\* wait for the collector.
DotProduct_Worker_svc(x) ==
    /\ dfarm = "running" /\ dpc # "crashed"
    /\ dworker[x].st = "busy"
    /\ LET tp == sent[dworker[x].t]
       IN  results' = Append(results, PartialDotProduct(tp.v1, tp.v2, tp.size))
    /\ dworker' = [dworker EXCEPT ![x] = Idle]
    /\ UNCHANGED <<mainVars, stageVars, emitterVars, dfarm, taken, sink, pf>>

\* The emitter has returned EOS and every tuple is taken: the worker gets EOS.
DotProduct_Worker_eos(x) ==
    /\ dfarm = "running" /\ dpc = "eos"
    /\ dworker[x].st = "idle" /\ taken = Len(sent)
    /\ dworker' = [dworker EXCEPT ![x] = [st |-> "ended", t |-> 0]]
    /\ UNCHANGED <<mainVars, stageVars, emitterVars, dfarm, taken, results, sink, pf>>

\* Sink::svc (171-175): the partial result received is added to sum, and svc
\* returns EOS, which ends the collector's service loop.
Sink_svc ==
    /\ dfarm = "running" /\ dpc # "crashed"
    /\ sink.st = "running" /\ results # << >>
    /\ sink' = [sink EXCEPT !.sum = sink.sum + Head(results),
                            !.n   = sink.n + 1,
                            !.st  = "eos"]
    /\ results' = Tail(results)
    /\ UNCHANGED <<mainVars, stageVars, emitterVars, dfarm, taken, dworker, pf>>

\* Sink::svc_end (177-185), run once the service loop has ended: the two
\* cells are written; mtx is locked for the print and unlocked (182-184).
Sink_svc_end_run ==
    /\ dfarm = "running" /\ dpc # "crashed"
    /\ sink.st = "eos"
    /\ sink' = [sink EXCEPT !.M  = <<Sink_svc_end(sink.M[1], sink.i, sink.j, sink.sum)>>,
                            !.st = "ended"]
    /\ UNCHANGED <<mainVars, stageVars, emitterVars, dfarm, taken, dworker, results, pf>>

\* 323-327: run_and_wait_end returns once the emitter, every worker and the
\* collector have ended; svc returns GO_ON.
DotProduct_Stage_return ==
    /\ dfarm = "running" /\ dpc = "eos"
    /\ \A x \in DOMAIN dworker : dworker[x].st = "ended"
    /\ sink.st = "ended"
    /\ dfarm' = "returned"
    /\ UNCHANGED <<mainVars, stageVars, emitterVars, taken, dworker, results, sink, pf>>

\* DotProduct_Stage::svc at 323, for a task of band Kv of a stage with budget
\* Wv >= 2: D workers, the emitter over v1 and v2 (314), and the Sink over the
\* task's matrix and cell (i, j) = (0, Kv) (313) have been created and the
\* farm is started.
InitEntry ==
    \E Kv \in 1..MaxK, Wv \in 2..MaxW :
      \E a \in [1..Kv -> 0..MaxVal], b \in [1..Kv -> 0..MaxVal] :
        /\ MainBuilt(Kv + 1, Wv)
        /\ StageIdle
        /\ emitter = [K |-> Kv, W |-> Wv,
                      D |-> CalculateResources(Wv, Kv, Kv + 1).D,
                      v1 |-> a, v2 |-> b]
        /\ dpc = "svc"
        /\ sub_v1_list = << >> /\ sub_v2_list = << >> /\ w = 0
        /\ sent = << >> /\ oob = FALSE
        /\ dfarm = "running" /\ taken = 0 /\ results = << >>
        /\ dworker = [x \in 1..emitter.D |-> Idle]
        /\ sink = [sum |-> 0, st |-> "running", n |-> 0,
                   M |-> <<FillMatrix(ZeroMatrix(Kv + 1), Kv + 1, Wv)>>,
                   i |-> 0, j |-> Kv]
        /\ pf = NoPf

NextEntry ==
    \/ DotProduct_Emitter_split
    \/ DotProduct_Emitter_send
    \/ DotProduct_Emitter_send_end
    \/ DotProduct_Emitter_eos
    \/ \E x \in DOMAIN dworker : DotProduct_Worker_take(x)
    \/ \E x \in DOMAIN dworker : DotProduct_Worker_svc(x)
    \/ \E x \in DOMAIN dworker : DotProduct_Worker_eos(x)
    \/ Sink_svc
    \/ Sink_svc_end_run
    \/ DotProduct_Stage_return

SpecEntry == InitEntry /\ [][NextEntry]_vars

\* Every thread of the farm that can run does run.
FairSpecEntry == SpecEntry /\ WF_vars(NextEntry)

\* --------------------------------------- CreateMatrix::svc, 150-152, alone
\* The parallel_for body with integer division: (m+1)/N without the cast.
FillBody_IntDiv(mat, mi, Nv) ==
    [mat EXCEPT ![mi][mi] = ((mi + 1) \div Nv) * Nv]

\* The body of the parallel_for (64): M[m][m] = static_cast<double>(m+1)/N.
\* The value (m+1)/N is held as its numerator m+1 over the denominator N.
FillBody(mat, mi, Nv) ==
    [mat EXCEPT ![mi][mi] = mi + 1]

\* One call of the body, for an index not yet done.  The W workers of the
\* ParallelFor (61) share the indices 0..N-1: the calls happen in any order.
FillMatrix_body(mi) ==
    /\ pf.st = "running" /\ mi \in pf.todo
    /\ M' = <<FillBody(M[1], mi, N)>>
    /\ pf' = [pf EXCEPT !.todo = pf.todo \ {mi}]
    /\ UNCHANGED <<mainVars, stage, farm, m, task, queue, worker, reads, out,
                   bandDone, emitterVars, entryVars>>

\* parallel_for returns once the body has run for every index (65-66).
FillMatrix_return ==
    /\ pf.st = "running" /\ pf.todo = {}
    /\ pf' = [pf EXCEPT !.st = "done"]
    /\ UNCHANGED <<mainVars, stageVars, emitterVars, entryVars>>

\* CreateMatrix::svc at 152, for N >= 1 and W >= 1: M is the fresh N x N
\* matrix of zeros (151) and parallel_for(0, N, ...) is entered (63).
InitFill ==
    \E Nv \in 1..MaxN, Wv \in 1..MaxW :
        /\ pc = "create" /\ N = Nv /\ W = Wv /\ k = 1
        /\ resources = NoResources /\ s2 = NoStage /\ pipe = << >> /\ nCalc = 0
        /\ stage = NoStage /\ M = <<ZeroMatrix(Nv)>> /\ farm = "none" /\ m = 0
        /\ task = << >> /\ queue = << >> /\ worker = << >> /\ reads = {}
        /\ out = "none" /\ bandDone = {}
        /\ emitter = NoEmitter /\ dpc = "none"
        /\ sub_v1_list = << >> /\ sub_v2_list = << >> /\ w = 0
        /\ sent = << >> /\ oob = FALSE
        /\ EntryIdle
        /\ pf = [st |-> "running", todo |-> 0..Nv-1]

NextFill ==
    \/ \E mi \in 0..N-1 : FillMatrix_body(mi)
    \/ FillMatrix_return

SpecFill == InitFill /\ [][NextFill]_vars

\* ================================================================ claims
Symmetric(mat) ==
    \A i \in DOMAIN mat : \A j \in DOMAIN mat : mat[i][j] = mat[j][i]

RECURSIVE Concat(_)
Concat(list) ==
    IF list = << >> THEN << >> ELSE Head(list) \o Concat(Tail(list))

FarmActive == pc = "stage" /\ farm \in {"running", "draining"}

\* C1: bands are processed in increasing order 1..N-1: while the farm of a
\* band K is active (its emitter builds and sends entry tasks, its workers run
\* them), every band below K has been completed by a farm that returned, and
\* every entry task in existence belongs to band K.
C1_BandOrder ==
    FarmActive =>
        /\ \A j \in 1..stage.K-1 : j \in bandDone
        /\ \A t \in DOMAIN task : task[t].K = stage.K

\* C2: whenever M_Diagonal_Stage::svc has started, the matrix it was handed
\* exists and holds the diagonal the Matrix Initializer fills.
C2_ValidInput ==
    (pc = "stage" /\ farm # "none") =>
        /\ M # << >>
        /\ \A i \in 0..stage.N-1 : M[1][i][i] = FillMatrix(ZeroMatrix(stage.N), stage.N, stage.W)[i][i]

\* C3: for N >= 2 and W >= 2 a fair run eventually ends normally with every
\* band 1..N-1 complete.
C3_Completes ==
    (N >= 2 /\ W >= 2) => <>(pc = "exit0" /\ \A j \in 1..N-1 : j \in bandDone)

\* C4: once the farm of band K has returned, the matrix the stage received
\* holds, for each of the N-K entries, the computed value in M[m][m+K] and in
\* M[m+K][m].  Stated for the stages with D <= K, whose entry reductions stay
\* inside their vectors.
C4_BandWritten ==
    (pc = "stage" /\ farm = "returned" /\ stage.D <= stage.K) =>
        /\ Len(task) = stage.N - stage.K
        /\ \A t \in DOMAIN task :
              /\ M[1][task[t].i][task[t].j] = task[t].element
              /\ M[1][task[t].j][task[t].i] = task[t].element

\* C5: every cell read into v1 or v2 for an entry of band K lies on the
\* diagonal or in a band below K.
C5_ReadsBelowBand ==
    \A r \in reads : Band(r[2], r[3]) < stage.K

\* C6: once the farm of a band has returned, every matrix of the program, the
\* stage's own and the one each entry write went to, is exactly symmetric.
C6_Symmetric ==
    (pc = "stage" /\ farm = "returned") =>
        /\ Symmetric(M[1])
        /\ \A t \in DOMAIN task : Symmetric(task[t].M)

\* C6 witness: a band has returned and an entry write, of a reduction that
\* stayed inside its vectors, stored a non-zero value.
C6_Witness ==
    /\ pc = "stage" /\ farm = "returned" /\ stage.D <= stage.K
    /\ \E t \in DOMAIN task :
          /\ task[t].st = "written" /\ task[t].element # 0
          /\ task[t].M[task[t].i][task[t].j] = task[t].element

\* C7: for W >= 2 and K >= 1 the split computed satisfies Z + D = W, Z >= 1
\* and D >= 1.
C7_Partition ==
    (nCalc > 0 /\ W >= 2) =>
        /\ resources.Z + resources.D = W
        /\ resources.Z >= 1
        /\ resources.D >= 1

\* C8: with N < 1 or W < 2 the run is rejected before any work: no split is
\* computed, no stage is created or added to the pipe, no stage or farm is
\* run, no entry task exists.
C8_Rejected ==
    (N < 1 \/ W < 2) =>
        /\ nCalc = 0 /\ pipe = << >>
        /\ pc # "stage"
        /\ farm = "none" /\ task = << >>

\* C9: the splitter returns exactly D chunks whose concatenation in order is
\* the input vector; the first (L mod D) chunks have L/D + 1 elements and the
\* others L/D, where L is the vector's length.
C9_SplitChunks ==
    (dpc \in {"loop", "eos"}) =>
        LET L == Len(emitter.v1)
            D == emitter.D
        IN  /\ Len(sub_v1_list) = D
            /\ Concat(sub_v1_list) = emitter.v1
            /\ \A i \in DOMAIN sub_v1_list :
                  Len(sub_v1_list[i]) = (L \div D) + (IF i - 1 < L % D THEN 1 ELSE 0)

\* C10: when D exceeds the vector length L the splitter still yields D chunks,
\* at most L of them non-empty, and neither an element at index >= L nor a
\* chunk past the end of the list is ever addressed.
C10_NoOutside ==
    (emitter.D > Len(emitter.v1)) =>
        /\ ~oob
        /\ dpc # "crashed"
        /\ (dpc \in {"loop", "eos"}) =>
              /\ Len(sub_v1_list) = emitter.D
              /\ Cardinality({i \in DOMAIN sub_v1_list : sub_v1_list[i] # << >>})
                    <= Len(emitter.v1)

\* C11: the sum the Sink takes the cube root of is the full dot product of v1
\* and v2, whatever D is.  Stated for the entries with D <= K, whose chunks
\* stay inside the vectors.
C11_FullDotProduct ==
    (sink.st = "ended" /\ emitter.D <= emitter.K) =>
        sink.sum = PartialDotProduct(emitter.v1, emitter.v2, emitter.K)

\* C12: a run in which the farm of a band failed to run does not end as a
\* normal completion does: main does not run to its end with status 0.
C12_FailedOutcome ==
    (farm = "failed") => pc # "exit0"

\* C13: for every N >= 1 and W >= 1, once the Matrix Initializer has
\* returned, M[i][i] = (i+1)/N for every i and every off-diagonal cell is
\* still 0, in whatever order the parallel loop ran.
C13_Initialised ==
    (pf.st = "done") =>
        \A i \in 0..N-1 : \A j \in 0..N-1 :
            M[1][i][j] = IF i = j THEN i + 1 ELSE 0

\* C13 witness: the initializer has returned for a matrix of at least two rows
\* filled with one worker.
C13_Witness ==
    pf.st = "done" /\ N >= 2 /\ W = 1 /\ M[1][N - 1][N - 1] = N

\* C14: in band 1 the task of entry (m, m+1) carries v1 = [M[m][m]] and
\* v2 = [M[m+1][m+1]], the two diagonal cells.
C14_BandOneVectors ==
    \A t \in DOMAIN task :
        (task[t].K = 1) =>
            /\ task[t].v1 = <<M[1][task[t].i][task[t].i]>>
            /\ task[t].v2 = <<M[1][task[t].j][task[t].j]>>

\* C15: for a fixed budget W >= 2, D does not decrease with K once K >= W: the
\* D computed for a band K2 >= W is at least the D of every band K1 with
\* W <= K1 <= K2.
C15_Monotone ==
    (nCalc >= 1 /\ W >= 2 /\ s2.K >= W) =>
        \A K1 \in W..s2.K : CalculateResources(W, K1, N).D <= resources.D

\* C15 witness: the loop has computed the split of two successive bands
\* K - 1 >= W and K for a budget W >= 2.
C15_Witness ==
    nCalc >= 2 /\ W >= 2 /\ s2.K - 1 >= W /\ resources.D >= 1

\* C16: the collector writes the entry value only after it has received and
\* added the partial results of all D workers.  Stated for the entries with
\* D <= K, whose chunks stay inside the vectors.
C16_AllPartials ==
    (sink.st = "ended" /\ emitter.D <= emitter.K) => sink.n = emitter.D

\* C17: the stage that executes a band is the one registered for it, with
\* its own K, Z and D: for a budget W >= 2, the first stage the pipe runs works
\* on band 1 with the split CalculateResources(W, 1, N).
C17_OwnBand ==
    (pc = "stage" /\ farm = "svc" /\ W >= 2) =>
        /\ stage.K = 1
        /\ stage.Z = CalculateResources(W, 1, N).Z
        /\ stage.D = CalculateResources(W, 1, N).D

\* C18: the stage of band K dispatches exactly N-K entry tasks, one per m in
\* 0..N-K-1 and none twice, the task of m targeting the cells (m, m+K) and
\* (m+K, m); the targets of different tasks are disjoint, and an entry
\* reduction changes no cell of the matrix it writes to other than its own two
\* targets, so no two running entries write the same cell.
C18_Dispatch ==
    (pc = "stage" /\ farm \in {"running", "draining", "returned"}) =>
        /\ Len(task) = m /\ m <= stage.N - stage.K
        /\ (farm # "running") => Len(task) = stage.N - stage.K
        /\ \A t \in DOMAIN task :
              /\ task[t].i = t - 1 /\ task[t].j = t - 1 + stage.K
              /\ \A a \in 0..stage.N-1 : \A b \in 0..stage.N-1 :
                    (task[t].M[a][b] # M[1][a][b]) =>
                        <<a, b>> \in {<<task[t].i, task[t].j>>, <<task[t].j, task[t].i>>}
        /\ \A t \in DOMAIN task : \A u \in DOMAIN task :
              (t # u) => {task[t].i, task[t].j} # {task[u].i, task[u].j}
        /\ \A x \in DOMAIN worker : \A y \in DOMAIN worker :
              (x # y /\ worker[x].st = "busy" /\ worker[y].st = "busy")
                  => worker[x].t # worker[y].t
        /\ \A q \in DOMAIN queue :
              /\ task[queue[q]].st = "sent"
              /\ \A x \in DOMAIN worker : worker[x].t # queue[q]
              /\ \A r \in DOMAIN queue : (q # r) => queue[q] # queue[r]

\* C18 witness: a band of at least two entries has been dispatched and its
\* farm has returned with every entry written.
C18_Witness ==
    /\ pc = "stage" /\ farm = "returned" /\ Len(task) >= 2
    /\ \A t \in DOMAIN task : task[t].st = "written"

\* C19: the task of entry m of band K carries v1 = M[m][m..m+K-1] and
\* v2 = M[m+K][m..m+K-1], both of length exactly K, and every cell read for
\* them has its indices inside 0..N-1: the two vectors of a task never differ
\* in length.
C19_TaskVectors ==
    /\ \A t \in DOMAIN task :
          LET mv == task[t].i
              Kv == stage.K
          IN  /\ Len(task[t].v1) = Kv /\ Len(task[t].v2) = Kv
              /\ \A i \in 1..Kv :
                    /\ task[t].v1[i] = M[1][mv][mv + i - 1]
                    /\ task[t].v2[i] = M[1][mv + Kv][mv + i - 1]
    /\ \A r \in reads : r[2] \in 0..stage.N-1 /\ r[3] \in 0..stage.N-1

\* C19 witness: the emitter of a band K >= 2 has built and sent a task.
C19_Witness ==
    /\ pc = "stage" /\ stage.K >= 2 /\ task # << >> /\ reads # {}
    /\ Len(task[1].v1) = 2 /\ task[1].v2[2] = 1

\* C20: every entry reduction terminates: once the farm of an entry is
\* started, under fair scheduling run_and_wait_end eventually returns, with the
\* emitter, every worker and the collector ended.
C20_Terminates ==
    (dfarm = "running") ~> (dfarm = "returned")

=============================================================================
